---------------------------- MODULE Spec2Model ----------------------------
(***************************************************************************)
(* Model of src/main.py: a Flask application that forwards search and     *)
(* detail requests to the TMDB API and renders the answers.                *)
(*                                                                         *)
(* One inbound request is in flight at a time (the handlers are blocking   *)
(* and share no state).  Each upstream call of a handler is one step; the  *)
(* upstream's answer is the step's input.                                  *)
(*                                                                         *)
(* Python values are represented as follows:                               *)
(*   dict            a function whose domain is the set of its keys        *)
(*   list            a sequence                                            *)
(*   form string     a sequence of one-character strings                   *)
(*   other string    a string                                              *)
(*   None            None (where a dict or URL may stand), NoneText (where *)
(*                   a form string may stand), NoneStr (where another      *)
(*                   string may stand)                                     *)
(***************************************************************************)
EXTENDS Integers, Sequences, FiniteSets, TLC

(***************************************************************************)
(* Bounds of the model.                                                    *)
(***************************************************************************)
MaxFieldLen == 2
MaxResults == 2
MaxVideos == 2
MaxProviders == 1
MaxSimilar == 9

\* results[:8] in get_similar_movies
SimilarLimit == 8

(***************************************************************************)
(* Python values.                                                          *)
(***************************************************************************)
None == [none |-> TRUE]
NoneText == <<"None">>
NoneStr == "<None>"
EmptyDict == [k \in {} |-> 0]

\* d.get(k, default) on a dict
Get(d, k, default) == IF k \in DOMAIN d THEN d[k] ELSE default

\* truthiness of an optional form string: None and "" are falsy
Truthy(s) == s # NoneText /\ Len(s) > 0

\* truthiness of an optional plain string
TruthyStr(s) == s # NoneStr /\ s # ""

\* truthiness of an optional dict: None and {} are falsy
TruthyDict(d) == d # None /\ DOMAIN d # {}

\* x if x else None
OrNone(s) == IF Len(s) > 0 THEN s ELSE NoneText

Whitespace == {" "}

RECURSIVE lstrip(_)
lstrip(s) ==
    IF s # <<>> /\ Head(s) \in Whitespace THEN lstrip(Tail(s)) ELSE s

RECURSIVE rstrip(_)
rstrip(s) ==
    IF s # <<>> /\ s[Len(s)] \in Whitespace
    THEN rstrip(SubSeq(s, 1, Len(s) - 1))
    ELSE s

\* str.strip()
strip(s) == rstrip(lstrip(s))

\* all sequences over S of length at most n
SeqsUpTo(S, n) == UNION {[1..k -> S] : k \in 0..n}

(***************************************************************************)
(* What the upstream may answer.  A call either raises a                   *)
(* requests.exceptions.RequestException (no response object exists), or    *)
(* returns a response with a status code and, on 200, a JSON body.         *)
(***************************************************************************)
ErrorStatuses == {404, 500}

Raised == [exc |-> TRUE]
Failed(code) == [exc |-> FALSE, status_code |-> code]
Ok(body) == [exc |-> FALSE, status_code |-> 200, json |-> body]

Failures == {Raised} \cup {Failed(c) : c \in ErrorStatuses}

IsOk(resp) == ~resp.exc /\ resp.status_code = 200

\* how a call ended, without the body
Outcome(resp) == IF resp.exc THEN Raised ELSE Failed(resp.status_code)

\* a body {"<key>": v} for v in values, or a body without the key
Bodies(key, values) == {EmptyDict} \cup {key :> v : v \in values}

FormChars == {" ", "a"}
FormValues == {NoneText} \cup SeqsUpTo(FormChars, MaxFieldLen)

GenreLists == {<<>>, <<[id |-> 28, name |-> "Action"]>>}
GenreResponses == Failures \cup {Ok(b) : b \in Bodies("genres", GenreLists)}

MovieIds == {1, 2}
MovieLists == {[i \in DOMAIN s |-> [id |-> s[i]]] : s \in SeqsUpTo(MovieIds, MaxResults)}
ResultResponses == Failures \cup {Ok(b) : b \in Bodies("results", MovieLists)}


Sites == {"YouTube", "Vimeo"}
VideoTypes == {"Trailer", "Teaser"}
VideoKeys == {"", "k1", "k2"}
\* a video entry; "key" may be missing from the entry
Videos ==
    [site : Sites, type : VideoTypes, key : VideoKeys] \cup [site : Sites, type : VideoTypes]
VideoLists == SeqsUpTo(Videos, MaxVideos)
VideoResponses == Failures \cup {Ok(b) : b \in Bodies("results", VideoLists)}

ProviderNames == <<"Netflix", "Apple TV", "Sky Go">>
Kinds == <<"flatrate", "rent", "buy">>
ProviderLists ==
    {[i \in 1..n |-> [provider_name |-> ProviderNames[i]]] : n \in 0..MaxProviders}
\* the data of one region: each kind is missing or a list of providers
RegionDatas ==
    UNION {[K -> ProviderLists] : K \in SUBSET {Kinds[i] : i \in DOMAIN Kinds}}
ProviderRegions == {"IE", "US"}
ProviderResults == UNION {[R -> RegionDatas] : R \in SUBSET ProviderRegions}
ProviderResponses == Failures \cup {Ok(b) : b \in Bodies("results", ProviderResults)}

SimilarLists ==
    {[i \in 1..n |-> [id |-> i, title |-> "similar"]] : n \in 0..MaxSimilar}
SimilarResponses == Failures \cup {Ok(b) : b \in Bodies("results", SimilarLists)}

\* the JSON of GET /movie/<id>: empty, without an id field, or complete
DetailBodies == {EmptyDict, [title |-> "Heat"], [id |-> 1, title |-> "Heat"]}
DetailResponses == Failures \cup {Ok(b) : b \in DetailBodies}

\* the region query argument of GET /movie/<id>; NoneStr when it is not given
RequestRegions == {NoneStr, "IE", "US", "XX"}

(***************************************************************************)
(* The helper functions.  Each maps the upstream's answer to the value the *)
(* helper returns (ret) and the lines it prints (out).                     *)
(***************************************************************************)
TmdbError(what, code) == [text |-> "TMDB error", what |-> what, status_code |-> code]
NetworkError(fn) == [text |-> "SSL / Network error", at |-> fn]

BaseParams == ("api_key" :> "TMDB_API_KEY") @@ ("language" :> "en-US")

get_genres_request == [url |-> "/genre/movie/list", params |-> BaseParams]

get_genres(resp) ==
    IF resp.exc
    THEN [ret |-> <<>>, out |-> <<NetworkError("get_genres")>>]
    ELSE IF resp.status_code = 200
    THEN [ret |-> Get(resp.json, "genres", <<>>), out |-> <<>>]
    ELSE [ret |-> <<>>, out |-> <<TmdbError("genres", resp.status_code)>>]

\* a discover_movies that forgets the year filter
discover_movies_request_no_year(genre_id, year) ==
    [url |-> "/discover/movie",
     params |-> BaseParams @@ ("sort_by" :> "popularity.desc")
                @@ (IF Truthy(genre_id) THEN "with_genres" :> genre_id ELSE EmptyDict)]

discover_movies_request(genre_id, year) ==
    [url |-> "/discover/movie",
     params |-> BaseParams @@ ("sort_by" :> "popularity.desc")
                @@ (IF Truthy(genre_id) THEN "with_genres" :> genre_id ELSE EmptyDict)
                @@ (IF Truthy(year) THEN "primary_release_year" :> year ELSE EmptyDict)]

discover_movies(resp) ==
    IF resp.exc
    THEN [ret |-> <<>>, out |-> <<NetworkError("discover_movies")>>]
    ELSE IF resp.status_code = 200
    THEN [ret |-> Get(resp.json, "results", <<>>), out |-> <<>>]
    ELSE [ret |-> <<>>, out |-> <<TmdbError("discover", resp.status_code)>>]

\* the request search_movies itself issues (query is truthy)
search_movies_request(query, genre_id, year) ==
    [url |-> "/search/movie",
     params |-> BaseParams @@ ("query" :> query) @@ ("include_adult" :> "false")
                @@ (IF Truthy(genre_id) THEN "with_genres" :> genre_id ELSE EmptyDict)
                @@ (IF Truthy(year) THEN "primary_release_year" :> year ELSE EmptyDict)]

\* a search_movies that returns None, as get_movie_details does, when the call failed
search_movies_none(resp) ==
    IF resp.exc
    THEN [ret |-> None, out |-> <<NetworkError("search_movies")>>]
    ELSE IF resp.status_code = 200
    THEN [ret |-> Get(resp.json, "results", <<>>), out |-> <<>>]
    ELSE [ret |-> None, out |-> <<TmdbError("search", resp.status_code)>>]

search_movies(resp) ==
    IF resp.exc
    THEN [ret |-> <<>>, out |-> <<NetworkError("search_movies")>>]
    ELSE IF resp.status_code = 200
    THEN [ret |-> Get(resp.json, "results", <<>>), out |-> <<>>]
    ELSE [ret |-> <<>>, out |-> <<TmdbError("search", resp.status_code)>>]

get_movie_details_request == [url |-> "/movie/{movie_id}", params |-> BaseParams]

\* a get_movie_details that hands back the body of an error answer
get_movie_details_unchecked(resp) ==
    IF resp.exc
    THEN [ret |-> None, out |-> <<NetworkError("get_movie_details")>>]
    ELSE IF resp.status_code = 200
    THEN [ret |-> resp.json, out |-> <<>>]
    ELSE [ret |-> [status_message |-> "The resource you requested could not be found."],
          out |-> <<TmdbError("details", resp.status_code)>>]

get_movie_details(resp) ==
    IF resp.exc
    THEN [ret |-> None, out |-> <<NetworkError("get_movie_details")>>]
    ELSE IF resp.status_code = 200
    THEN [ret |-> resp.json, out |-> <<>>]
    ELSE [ret |-> None, out |-> <<TmdbError("details", resp.status_code)>>]

YouTubeUrl(key) == [url |-> "https://www.youtube.com/watch?v=", v |-> key]

\* a loop that takes any YouTube video with a key, whatever its type
RECURSIVE TrailerLoop_any_type(_)
TrailerLoop_any_type(videos) ==
    IF videos = <<>> THEN None
    ELSE LET v == Head(videos)
         IN IF Get(v, "site", NoneStr) = "YouTube" /\ TruthyStr(Get(v, "key", NoneStr))
            THEN YouTubeUrl(v.key)
            ELSE TrailerLoop_any_type(Tail(videos))

\* the for loop of get_movie_trailer: the URL it returns, or None when it falls through
RECURSIVE TrailerLoop(_)
TrailerLoop(videos) ==
    IF videos = <<>> THEN None
    ELSE LET v == Head(videos)
         IN IF Get(v, "site", NoneStr) = "YouTube" /\ Get(v, "type", NoneStr) = "Trailer"
               /\ TruthyStr(Get(v, "key", NoneStr))
            THEN YouTubeUrl(v.key)
            ELSE TrailerLoop(Tail(videos))

get_movie_trailer_request == [url |-> "/movie/{movie_id}/videos", params |-> BaseParams]

get_movie_trailer(resp) ==
    IF resp.exc
    THEN [ret |-> None, out |-> <<NetworkError("get_movie_trailer")>>]
    ELSE IF resp.status_code = 200 /\ TrailerLoop(Get(resp.json, "results", <<>>)) # None
    THEN [ret |-> TrailerLoop(Get(resp.json, "results", <<>>)), out |-> <<>>]
    ELSE [ret |-> None, out |-> <<TmdbError("trailer", resp.status_code)>>]

get_watch_providers_request ==
    [url |-> "/movie/{movie_id}/watch/providers", params |-> "api_key" :> "TMDB_API_KEY"]

\* results.get(region), without the fallback to "US"
RegionData_no_fallback(results, region) == Get(results, region, None)

\* results.get(region) or results.get("US")
RegionData(results, region) ==
    IF TruthyDict(Get(results, region, None))
    THEN results[region]
    ELSE Get(results, "US", None)

\* the entries appended for one kind
KindEntries(region_data, kind) ==
    LET ps == Get(region_data, kind, <<>>)
    IN [i \in DOMAIN ps |->
            [name |-> Get(ps[i], "provider_name", NoneStr), type |-> kind]]

\* the loop over ("flatrate", "rent", "buy"), from the i-th kind on
RECURSIVE ProvidersFrom(_, _)
ProvidersFrom(region_data, i) ==
    IF i > Len(Kinds) THEN <<>>
    ELSE KindEntries(region_data, Kinds[i]) \o ProvidersFrom(region_data, i + 1)

get_watch_providers(resp, region) ==
    IF resp.exc
    THEN [ret |-> <<>>, out |-> <<NetworkError("get_watch_providers")>>]
    ELSE IF resp.status_code = 200
    THEN LET results == Get(resp.json, "results", EmptyDict)
             region_data == RegionData(results, region)
         IN IF ~TruthyDict(region_data)
            THEN [ret |-> <<>>, out |-> <<>>]
            ELSE [ret |-> ProvidersFrom(region_data, 1), out |-> <<>>]
    ELSE [ret |-> <<>>, out |-> <<TmdbError("providers", resp.status_code)>>]

get_similar_movies_request == [url |-> "/movie/{movie_id}/similar", params |-> BaseParams]

\* one entry of the list get_similar_movies builds
SimilarEntry(m) ==
    [id |-> Get(m, "id", NoneStr),
     title |-> Get(m, "title", NoneStr),
     poster_path |-> Get(m, "poster_path", NoneStr),
     vote_average |-> Get(m, "vote_average", NoneStr),
     release_date |-> Get(m, "release_date", "")]

Min(a, b) == IF a < b THEN a ELSE b

\* a get_similar_movies that returns None when the call raised
get_similar_movies_none(resp) ==
    IF resp.exc
    THEN [ret |-> None, out |-> <<NetworkError("get_similar_movies")>>]
    ELSE IF resp.status_code = 200
    THEN LET results == Get(resp.json, "results", <<>>)
         IN [ret |-> [i \in 1..Min(SimilarLimit, Len(results)) |-> SimilarEntry(results[i])],
             out |-> <<>>]
    ELSE [ret |-> <<>>, out |-> <<TmdbError("similar", resp.status_code)>>]

get_similar_movies(resp) ==
    IF resp.exc
    THEN [ret |-> <<>>, out |-> <<NetworkError("get_similar_movies")>>]
    ELSE IF resp.status_code = 200
    THEN LET results == Get(resp.json, "results", <<>>)
         IN [ret |-> [i \in 1..Min(SimilarLimit, Len(results)) |-> SimilarEntry(results[i])],
             out |-> <<>>]
    ELSE [ret |-> <<>>, out |-> <<TmdbError("similar", resp.status_code)>>]

(***************************************************************************)
(* The state of the request being served.                                  *)
(***************************************************************************)
VARIABLES
    pc,             \* the line the handler is at; "idle" before the first request
    query,          \* search: request.form.get("query", "").strip()
    genre_id,       \* search: request.form.get("genre", "").strip()
    year,           \* search: request.form.get("year", "").strip()
    args_region,    \* movie_detail: the region query argument of the request
    genres,         \* the value get_genres returned
    movies,         \* search: the value of the results call
    movie,          \* movie_detail: the value get_movie_details returned
    trailer_url,    \* movie_detail: the value get_movie_trailer returned
    providers,      \* movie_detail: the value get_watch_providers returned
    similar,        \* movie_detail: the value get_similar_movies returned
    region,         \* movie_detail: the region get_watch_providers is called for
    last_resp,      \* what the last upstream call of this request answered
    calls,          \* the upstream requests issued for this request, in order
    answers,        \* how each of them ended: raised, or the status code returned
    log,            \* the lines printed while serving this request
    response        \* what the handler returned, None while it runs

locals == <<query, genre_id, year, args_region, genres, movies, movie, trailer_url,
            providers, similar, region>>
vars == <<pc, locals, last_resp, calls, answers, log, response>>

\* a handler starts with nothing bound
Fresh ==
    /\ genres = <<>>
    /\ movies = <<>>
    /\ movie = None
    /\ trailer_url = None
    /\ providers = <<>>
    /\ similar = <<>>
    /\ region = NoneStr
    /\ last_resp = None
    /\ calls = <<>>
    /\ answers = <<>>
    /\ log = <<>>
    /\ response = None

Init ==
    /\ pc = "idle"
    /\ query = <<>>
    /\ genre_id = <<>>
    /\ year = <<>>
    /\ args_region = NoneStr
    /\ Fresh

\* a request arrives while none is being served; its handler starts with nothing bound
Arrive ==
    /\ pc = "idle"
    /\ UNCHANGED <<genres, movies, movie, trailer_url, providers, similar, region,
                   last_resp, calls, answers, log, response>>

\* the response has been sent: nothing of the request is kept
Return ==
    /\ pc = "done"
    /\ pc' = "idle"
    /\ query' = <<>>
    /\ genre_id' = <<>>
    /\ year' = <<>>
    /\ args_region' = NoneStr
    /\ genres' = <<>>
    /\ movies' = <<>>
    /\ movie' = None
    /\ trailer_url' = None
    /\ providers' = <<>>
    /\ similar' = <<>>
    /\ region' = NoneStr
    /\ last_resp' = None
    /\ calls' = <<>>
    /\ answers' = <<>>
    /\ log' = <<>>
    /\ response' = None

\* requests.get(url, params=params, ...) is entered: the request goes out
Send(request) ==
    /\ calls' = Append(calls, request)
    /\ last_resp' = None
    /\ UNCHANGED <<locals, answers, log, response>>

\* requests.get returns r or raises; the helper prints out and returns
Answer(r, out) ==
    /\ last_resp' = r
    /\ answers' = Append(answers, Outcome(r))
    /\ log' = log \o out
    /\ UNCHANGED calls

Render(template, context) ==
    /\ response' = [status |-> 200, template |-> template, context |-> context]
    /\ pc' = "done"
    /\ UNCHANGED <<locals, last_resp, calls, answers, log>>

(***************************************************************************)
(* GET /                                                                   *)
(***************************************************************************)
IndexStart ==
    /\ Arrive
    /\ pc' = "index:204"
    /\ UNCHANGED <<query, genre_id, year, args_region>>

IndexGenresSend ==
    /\ pc = "index:204"
    /\ Send(get_genres_request)
    /\ pc' = "index:get_genres"

IndexGenresAnswer ==
    /\ pc = "index:get_genres"
    /\ \E r \in GenreResponses :
        /\ Answer(r, get_genres(r).out)
        /\ genres' = get_genres(r).ret
    /\ pc' = "index:205"
    /\ UNCHANGED <<query, genre_id, year, args_region, movies, movie, trailer_url,
                   providers, similar, region, response>>

IndexRender ==
    /\ pc = "index:205"
    /\ Render("index.html", [genres |-> genres])

(***************************************************************************)
(* POST /search                                                            *)
(***************************************************************************)
FormKeys == {"query", "genre", "year"}
Forms == UNION {[K -> SeqsUpTo(FormChars, MaxFieldLen)] : K \in SUBSET FormKeys}

SearchStart ==
    /\ Arrive
    /\ \E form \in Forms :
        /\ query' = strip(Get(form, "query", <<>>))
        /\ genre_id' = strip(Get(form, "genre", <<>>))
        /\ year' = strip(Get(form, "year", <<>>))
    /\ pc' = "search:214"
    /\ UNCHANGED args_region

SearchGenresSend ==
    /\ pc = "search:214"
    /\ Send(get_genres_request)
    /\ pc' = "search:get_genres"

SearchGenresAnswer ==
    /\ pc = "search:get_genres"
    /\ \E r \in GenreResponses :
        /\ Answer(r, get_genres(r).out)
        /\ genres' = get_genres(r).ret
    /\ pc' = "search:216"
    /\ UNCHANGED <<query, genre_id, year, args_region, movies, movie, trailer_url,
                   providers, similar, region, response>>

\* no field is filled in: discover_movies()
SearchDiscoverAllSend ==
    /\ pc = "search:216"
    /\ ~Truthy(query) /\ ~Truthy(genre_id) /\ ~Truthy(year)
    /\ Send(discover_movies_request(NoneText, NoneText))
    /\ pc' = "search:discover_movies"

\* search_movies(...) with a title: the text search
SearchByTitleSend ==
    /\ pc = "search:216"
    /\ ~(~Truthy(query) /\ ~Truthy(genre_id) /\ ~Truthy(year))
    /\ Truthy(OrNone(query))
    /\ Send(search_movies_request(OrNone(query), OrNone(genre_id), OrNone(year)))
    /\ pc' = "search:search_movies"

\* search_movies(...) without a title: it returns discover_movies(genre_id, year)
SearchFallbackSend ==
    /\ pc = "search:216"
    /\ ~(~Truthy(query) /\ ~Truthy(genre_id) /\ ~Truthy(year))
    /\ ~Truthy(OrNone(query))
    /\ Send(discover_movies_request(OrNone(genre_id), OrNone(year)))
    /\ pc' = "search:discover_movies"

SearchDiscoverAnswer ==
    /\ pc = "search:discover_movies"
    /\ \E r \in ResultResponses :
        /\ Answer(r, discover_movies(r).out)
        /\ movies' = discover_movies(r).ret
    /\ pc' = "search:225"
    /\ UNCHANGED <<query, genre_id, year, args_region, genres, movie, trailer_url,
                   providers, similar, region, response>>

SearchByTitleAnswer ==
    /\ pc = "search:search_movies"
    /\ \E r \in ResultResponses :
        /\ Answer(r, search_movies(r).out)
        /\ movies' = search_movies(r).ret
    /\ pc' = "search:225"
    /\ UNCHANGED <<query, genre_id, year, args_region, genres, movie, trailer_url,
                   providers, similar, region, response>>

SearchRender ==
    /\ pc = "search:225"
    /\ Render("results.html",
              [movies |-> movies, genres |-> genres, query |-> query,
               selected_genre |-> genre_id, selected_year |-> year])

(***************************************************************************)
(* GET /movie/<movie_id>                                                   *)
(***************************************************************************)
\* the default of get_watch_providers' region parameter
DefaultRegion == "IE"

DetailStart ==
    /\ Arrive
    /\ \E r \in RequestRegions : args_region' = r
    /\ pc' = "detail:238"
    /\ UNCHANGED <<query, genre_id, year>>

DetailDetailsSend ==
    /\ pc = "detail:238"
    /\ Send(get_movie_details_request)
    /\ pc' = "detail:get_movie_details"

DetailDetailsAnswer ==
    /\ pc = "detail:get_movie_details"
    /\ \E r \in DetailResponses :
        /\ Answer(r, get_movie_details(r).out)
        /\ movie' = get_movie_details(r).ret
    /\ pc' = "detail:239"
    /\ UNCHANGED <<query, genre_id, year, args_region, genres, movies, trailer_url,
                   providers, similar, region, response>>

DetailNotFound ==
    /\ pc = "detail:239"
    /\ ~TruthyDict(movie)
    /\ response' = [status |-> 404, body |-> "Movie not found"]
    /\ pc' = "done"
    /\ UNCHANGED <<locals, last_resp, calls, answers, log>>

DetailTrailerSend ==
    /\ pc = "detail:239"
    /\ TruthyDict(movie)
    /\ Send(get_movie_trailer_request)
    /\ pc' = "detail:get_movie_trailer"

DetailTrailerAnswer ==
    /\ pc = "detail:get_movie_trailer"
    /\ \E r \in VideoResponses :
        /\ Answer(r, get_movie_trailer(r).out)
        /\ trailer_url' = get_movie_trailer(r).ret
    /\ pc' = "detail:243"
    /\ UNCHANGED <<query, genre_id, year, args_region, genres, movies, movie,
                   providers, similar, region, response>>

\* get_watch_providers(movie_id): region takes its default
DetailProvidersSend ==
    /\ pc = "detail:243"
    /\ region' = DefaultRegion
    /\ calls' = Append(calls, get_watch_providers_request)
    /\ last_resp' = None
    /\ pc' = "detail:get_watch_providers"
    /\ UNCHANGED <<query, genre_id, year, args_region, genres, movies, movie,
                   trailer_url, providers, similar, answers, log, response>>

DetailProvidersAnswer ==
    /\ pc = "detail:get_watch_providers"
    /\ \E r \in ProviderResponses :
        /\ Answer(r, get_watch_providers(r, region).out)
        /\ providers' = get_watch_providers(r, region).ret
    /\ pc' = "detail:244"
    /\ UNCHANGED <<query, genre_id, year, args_region, genres, movies, movie,
                   trailer_url, similar, region, response>>

DetailSimilarSend ==
    /\ pc = "detail:244"
    /\ Send(get_similar_movies_request)
    /\ pc' = "detail:get_similar_movies"

\* a handler that asks for the similar movies again when the call failed
DetailSimilarAnswer_retry ==
    /\ pc = "detail:get_similar_movies"
    /\ \E r \in SimilarResponses :
        /\ Answer(r, get_similar_movies(r).out)
        /\ similar' = get_similar_movies(r).ret
        /\ pc' = IF IsOk(r) THEN "detail:246" ELSE "detail:244"
    /\ UNCHANGED <<query, genre_id, year, args_region, genres, movies, movie,
                   trailer_url, providers, region, response>>

DetailSimilarAnswer ==
    /\ pc = "detail:get_similar_movies"
    /\ \E r \in SimilarResponses :
        /\ Answer(r, get_similar_movies(r).out)
        /\ similar' = get_similar_movies(r).ret
    /\ pc' = "detail:246"
    /\ UNCHANGED <<query, genre_id, year, args_region, genres, movies, movie,
                   trailer_url, providers, region, response>>

DetailRender ==
    /\ pc = "detail:246"
    /\ Render("detail.html",
              [movie |-> movie, trailer_url |-> trailer_url, providers |-> providers,
               similar_movies |-> similar])

Next ==
    \/ IndexStart \/ IndexGenresSend \/ IndexGenresAnswer \/ IndexRender
    \/ SearchStart \/ SearchGenresSend \/ SearchGenresAnswer
    \/ SearchDiscoverAllSend \/ SearchByTitleSend \/ SearchFallbackSend
    \/ SearchDiscoverAnswer \/ SearchByTitleAnswer \/ SearchRender
    \/ DetailStart \/ DetailDetailsSend \/ DetailDetailsAnswer \/ DetailNotFound
    \/ DetailTrailerSend \/ DetailTrailerAnswer
    \/ DetailProvidersSend \/ DetailProvidersAnswer
    \/ DetailSimilarSend \/ DetailSimilarAnswer \/ DetailRender
    \/ Return

Spec == Init /\ [][Next]_vars

(***************************************************************************)
(* Properties.                                                             *)
(***************************************************************************)
ResultUrls == {"/search/movie", "/discover/movie"}

\* the results call of a POST /search has been answered, and it failed
ResultsCallFailed ==
    /\ Len(answers) = 2
    /\ calls[2].url \in ResultUrls
    /\ ~IsOk(answers[2])

\* C1: when the results call of a POST /search (text search or discovery) fails,
\* by a non-200 status or a network error, the movies list is empty and the
\* handler goes on to render results.html with that empty list.
C1_FailedSearchRendersEmpty ==
    ResultsCallFailed =>
        /\ movies = <<>>
        /\ pc \in {"search:225", "done"}
        /\ pc = "search:225" => ENABLED SearchRender
        /\ pc = "done" =>
              response = [status |-> 200, template |-> "results.html",
                          context |-> [movies |-> <<>>, genres |-> genres,
                                       query |-> query, selected_genre |-> genre_id,
                                       selected_year |-> year]]

\* a text search with a genre whose results call raised, answered with results.html
C1_Witness ==
    /\ pc = "done"
    /\ ResultsCallFailed
    /\ answers[2] = Raised
    /\ calls[2].url = "/search/movie"
    /\ Truthy(genre_id)
    /\ response.template = "results.html"

\* the details call of a GET /movie/<id> has been answered, and it failed
DetailsCallFailed ==
    /\ Len(answers) >= 1
    /\ calls[1] = get_movie_details_request
    /\ ~IsOk(answers[1])

\* C2: when the details call of a GET /movie/<id> fails, no further upstream call
\* is issued for the request, the handler can only answer "not found", and its
\* answer is the 404 (detail.html is not rendered).
C2_FailedDetailsIsNotFound ==
    DetailsCallFailed =>
        /\ Len(calls) = 1
        /\ pc \in {"detail:239", "done"}
        /\ pc = "detail:239" => ENABLED DetailNotFound /\ ~ENABLED DetailTrailerSend
        /\ pc = "done" => response = [status |-> 404, body |-> "Movie not found"]

\* a details call answered 500, and the request answered 404
C2_Witness ==
    /\ pc = "done"
    /\ DetailsCallFailed
    /\ answers[1] = Failed(500)
    /\ response.status = 404

\* C3: a details call answered 200 with a record that has no id field is treated
\* as not found: the request is answered 404.
C3_NoIdIsNotFound ==
    ( /\ pc = "done"
      /\ Len(answers) >= 1
      /\ calls[1] = get_movie_details_request
      /\ IsOk(answers[1])
      /\ "id" \notin DOMAIN movie )
    => response.status = 404

\* the region codes a request may ask for
AllowedRegions == {"IE", "US", "GB"}

\* C4: the region the provider lookup of a GET /movie/<id>?region=<code> is made
\* for is the requested region when the code is in the allow-list and the default
\* region otherwise, so it is always a region of the allow-list.
C4_RegionFromAllowList ==
    LET wanted == IF args_region \in AllowedRegions THEN args_region ELSE DefaultRegion
    IN region # NoneStr =>
          /\ region \in AllowedRegions
          /\ region = wanted

\* the least element of a non-empty set of numbers
Least(S) == CHOOSE i \in S : \A j \in S : i <= j

\* the videos of a 200 answer of the videos call
VideosOf(resp) == Get(resp.json, "results", <<>>)

IsYouTubeTrailer(v) == v.site = "YouTube" /\ v.type = "Trailer"
HasKey(v) == "key" \in DOMAIN v /\ v.key # ""

\* C5 as claimed: the trailer is that of the first video, in upstream order, whose
\* site is "YouTube" and whose type is "Trailer", and None when there is none.
C5_FirstYouTubeTrailer ==
    (pc = "detail:243" /\ IsOk(last_resp)) =>
        LET vs == VideosOf(last_resp)
            M == {i \in DOMAIN vs : IsYouTubeTrailer(vs[i])}
        IN IF M = {} THEN trailer_url = None
           ELSE trailer_url = YouTubeUrl(Get(vs[Least(M)], "key", NoneStr))

\* C5 as amended: the trailer is that of the first video, in upstream order, whose
\* site is "YouTube", whose type is "Trailer" and which has a non-empty key, and
\* None when there is none.
C5_FirstKeyedYouTubeTrailer ==
    (pc = "detail:243" /\ IsOk(last_resp)) =>
        LET vs == VideosOf(last_resp)
            M == {i \in DOMAIN vs : IsYouTubeTrailer(vs[i]) /\ HasKey(vs[i])}
        IN IF M = {} THEN trailer_url = None
           ELSE trailer_url = YouTubeUrl(vs[Least(M)].key)

\* two YouTube trailers, the first without a key: the second one is taken
C5_Witness ==
    /\ pc = "detail:243"
    /\ IsOk(last_resp)
    /\ VideosOf(last_resp) = <<[site |-> "YouTube", type |-> "Trailer"],
                               [site |-> "YouTube", type |-> "Trailer", key |-> "k2"]>>
    /\ trailer_url = YouTubeUrl("k2")

\* the results call of a POST /search has been answered
SearchAnswered ==
    \/ pc = "search:225"
    \/ pc = "done" /\ response.status = 200 /\ response.template = "results.html"

\* C6: a POST /search issues, after the genre-list call, exactly one results
\* call: the text search with the title when the title is non-empty, otherwise
\* the discovery sorted by descending popularity with the genre filter passed
\* exactly when the genre is non-empty; either passes the year exactly when the
\* year is non-empty; and the movies are the upstream's results, in its order.
C6_OneResultsCall ==
    SearchAnswered =>
        /\ Len(calls) = 2
        /\ calls[1] = get_genres_request
        /\ LET p == calls[2].params
           IN /\ IF query # <<>>
                 THEN /\ calls[2].url = "/search/movie"
                      /\ p.query = query
                 ELSE /\ calls[2].url = "/discover/movie"
                      /\ p.sort_by = "popularity.desc"
                      /\ "with_genres" \in DOMAIN p <=> genre_id # <<>>
                      /\ genre_id # <<>> => p.with_genres = genre_id
              /\ "primary_release_year" \in DOMAIN p <=> year # <<>>
              /\ year # <<>> => p.primary_release_year = year
        /\ IsOk(last_resp) =>
              movies = IF "results" \in DOMAIN last_resp.json
                       THEN last_resp.json.results ELSE <<>>

\* a discovery with genre and year whose two results come back in upstream order
C6_Witness ==
    /\ pc = "search:225"
    /\ query = <<>> /\ genre_id # <<>> /\ year # <<>>
    /\ calls[2].url = "/discover/movie"
    /\ IsOk(last_resp)
    /\ movies = <<[id |-> 2], [id |-> 1]>>

\* whether results holds non-empty data for the region
HasData(results, code) == code \in DOMAIN results /\ DOMAIN results[code] # {}

\* the entries of one kind of a region's data: missing kinds have none
Tagged(data, kind) ==
    LET ps == IF kind \in DOMAIN data THEN data[kind] ELSE <<>>
    IN [i \in DOMAIN ps |-> [name |-> ps[i].provider_name, type |-> kind]]

\* the names of the entries of one kind in the list get_watch_providers returned
Group(list, kind) ==
    LET es == SelectSeq(list, LAMBDA e : e.type = kind)
    IN [i \in DOMAIN es |-> es[i].name]

DetailsCallSucceeded ==
    /\ Len(answers) >= 1
    /\ calls[1] = get_movie_details_request
    /\ IsOk(answers[1])
    /\ movie # None /\ DOMAIN movie # {}

\* the i-th call of the request has been answered, and it failed
FailedCall(i) == Len(answers) >= i /\ ~IsOk(answers[i])

\* a failed sub-call leaves its empty value, the handler goes on whatever the
\* sub-calls answered, and it ends rendering detail.html with the values it has
C8_Degraded ==
    DetailsCallSucceeded =>
        /\ FailedCall(2) => trailer_url = None
        /\ FailedCall(3) => providers = <<>>
        /\ FailedCall(4) => similar = <<>>
        /\ pc = "detail:239" => ENABLED DetailTrailerSend /\ ~ENABLED DetailNotFound
        /\ pc = "detail:243" => ENABLED DetailProvidersSend
        /\ pc = "detail:244" => ENABLED DetailSimilarSend
        /\ pc = "detail:246" => ENABLED DetailRender
        /\ pc = "done" =>
              /\ Len(answers) = 4
              /\ response = [status |-> 200, template |-> "detail.html",
                             context |-> [movie |-> movie, trailer_url |-> trailer_url,
                                          providers |-> providers,
                                          similar_movies |-> similar]]

\* a step of one sub-call leaves the values of the other two alone
C8_Independent ==
    /\ pc \in {"detail:239", "detail:get_movie_trailer"} =>
          providers' = providers /\ similar' = similar
    /\ pc \in {"detail:243", "detail:get_watch_providers"} =>
          trailer_url' = trailer_url /\ similar' = similar
    /\ pc \in {"detail:244", "detail:get_similar_movies", "detail:246"} =>
          trailer_url' = trailer_url /\ providers' = providers

\* C8: once the details call of a GET /movie/<id> has returned a record, any
\* combination of failures of the trailer, provider and similar calls still ends
\* in detail.html being rendered; a failed sub-call gives None (trailer) or the
\* empty list (providers, similar), and no sub-call changes the value of another.
C8_SubCallFailuresDegrade == [] C8_Degraded /\ [][C8_Independent]_vars

\* trailer and similar calls failed, the providers in between are rendered
C8_Witness ==
    /\ pc = "done"
    /\ DetailsCallSucceeded
    /\ answers[2] = Raised
    /\ IsOk(answers[3])
    /\ answers[4] = Failed(404)
    /\ response.template = "detail.html"
    /\ Len(response.context.providers) = 2
    /\ response.context.similar_movies = <<>>

Urls == [i \in DOMAIN calls |-> calls[i].url]

IsPrefix(s, t) == Len(s) <= Len(t) /\ \A i \in DOMAIN s : s[i] = t[i]

DetailOrder ==
    <<"/movie/{movie_id}", "/movie/{movie_id}/videos",
      "/movie/{movie_id}/watch/providers", "/movie/{movie_id}/similar">>

IndexPcs == {"index:204", "index:get_genres", "index:205"}
SearchPcs == {"search:214", "search:get_genres", "search:216", "search:discover_movies",
              "search:search_movies", "search:225"}
DetailPcs == {"detail:238", "detail:get_movie_details", "detail:239",
              "detail:get_movie_trailer", "detail:243", "detail:get_watch_providers",
              "detail:244", "detail:get_similar_movies", "detail:246"}

\* C9: within a request a call is issued only once the one before it has been
\* answered, and no endpoint is called twice, whatever the answers; GET
\* /movie/<id> issues details, trailer, providers, similar in that order (all four
\* when it renders, the first only when it answers 404), POST /search the genre
\* list and then exactly one results call, GET / the genre list only.
C9_SequentialNoRetry ==
    /\ Len(calls) - Len(answers) \in {0, 1}
    /\ \A i, j \in DOMAIN calls : i # j => calls[i].url # calls[j].url
    /\ pc \in IndexPcs => IsPrefix(Urls, <<"/genre/movie/list">>)
    /\ pc \in SearchPcs =>
          \E u \in ResultUrls : IsPrefix(Urls, <<"/genre/movie/list", u>>)
    /\ pc \in DetailPcs => IsPrefix(Urls, DetailOrder)
    /\ pc = "done" =>
          /\ Len(answers) = Len(calls)
          /\ IF response.status = 404 THEN Urls = <<"/movie/{movie_id}">>
             ELSE IF response.template = "detail.html" THEN Urls = DetailOrder
             ELSE IF response.template = "results.html"
             THEN \E u \in ResultUrls : Urls = <<"/genre/movie/list", u>>
             ELSE Urls = <<"/genre/movie/list">>

\* a detail page rendered after four calls, two of which failed
C9_Witness ==
    /\ pc = "done"
    /\ Len(calls) = 4
    /\ FailedCall(2)
    /\ FailedCall(4)
    /\ response.status = 200

\* C10: a helper prints a failure line only when its call failed: no "TMDB
\* error" line carries status 200, and there are no more lines than failed calls.
C10_LogOnlyOnFailure ==
    /\ \A i \in DOMAIN log : log[i].text = "TMDB error" => log[i].status_code # 200
    /\ Len(log) <= Cardinality({i \in DOMAIN answers : ~IsOk(answers[i])})

=============================================================================
